---- MODULE Spec2Model ----
(***************************************************************************)
(* Selective Repeat sender (A) and receiver (B) of src/sr.c, lines 254-604 *)
(* (the Selective Repeat translation unit), over a lossy, corrupting FIFO  *)
(* channel and a single retransmission timer.                              *)
(***************************************************************************)
EXTENDS Integers, Sequences, FiniteSets, TLC

(* ---------------- program constants ---------------- *)
WINDOWSIZE == 6
SEQSPACE == 7
NOTINUSE == -1
MAX_RETRIES == 10
PAYLOADLEN == 20
AckFill == 48

(* ---------------- bounds of the model ---------------- *)
MaxMsgs == 7
MaxChan == 1
MaxResent == 1
MaxWindowFull == 1

\* the checksum study: messages 0 .. MaxSample framed under every sequence number
MaxSample == 2

\* the wrap-around study: enough submissions for sequence number 0 to come round
MaxWrapMsgs == 8

\* the retry study: submissions while timeouts are not bounded
MaxRetryMsgs == 1

(* ---------------- C arithmetic ---------------- *)
\* C's % truncates toward zero
CMod(a, b) == IF a >= 0 THEN a % b ELSE -((-a) % b)

Slots == 0 .. (WINDOWSIZE - 1)
Seqs == 0 .. (SEQSPACE - 1)

RECURSIVE SumBytes(_, _)
SumBytes(payload, i) ==
    IF i > PAYLOADLEN THEN 0 ELSE payload[i] + SumBytes(payload, i + 1)

\* slip: the loop stops one byte short, the last payload byte is not summed
ComputeChecksum_short(packet) ==
    packet.seqnum + packet.acknum + SumBytes(packet.payload, 1)
        - packet.payload[PAYLOADLEN]

ComputeChecksum(packet) ==
    packet.seqnum + packet.acknum + SumBytes(packet.payload, 1)

IsCorrupted(packet) == packet.checksum # ComputeChecksum(packet)

\* a struct pkt in static storage: all fields zero
ZeroPkt == [seqnum |-> 0, acknum |-> 0, checksum |-> 0,
            payload |-> [i \in 1 .. PAYLOADLEN |-> 0]]

\* the message of the k-th accepted submission (k = 0, 1, ...): twenty equal letters
Message(k) == [i \in 1 .. PAYLOADLEN |-> 97 + (k % 26)]

MakePkt(seq, ack, payload) ==
    LET p == [seqnum |-> seq, acknum |-> ack, checksum |-> 0, payload |-> payload]
    IN  [p EXCEPT !.checksum = ComputeChecksum(p)]

(* ---------------- collaborators: timer and layers ---------------- *)
\* s.tcalls records the timer calls of the running handler, s.dstart whether
\* starttimer was called while the timer was running, s.sent the frames handed
\* to the channel, s.slides how often base advanced, r.deliv the payloads delivered
starttimer(s) ==
    [s EXCEPT !.dstart = (@ \/ s.timer), !.timer = TRUE, !.tcalls = Append(@, "start")]

stoptimer(s) ==
    [s EXCEPT !.timer = FALSE, !.tcalls = Append(@, "stop")]

tolayer3(s, packet) == [s EXCEPT !.sent = Append(@, packet)]

tolayer5(r, payload) == [r EXCEPT !.deliv = Append(@, payload)]

(* ---------------- sender A ---------------- *)
\* slip: the window test admits one frame too many
WindowHasRoom_offByOne(s) ==
    CMod(s.next_seqnum - s.base + SEQSPACE, SEQSPACE) <= WINDOWSIZE

WindowHasRoom(s) ==
    CMod(s.next_seqnum - s.base + SEQSPACE, SEQSPACE) < WINDOWSIZE

\* slip: the window test is missing, a submission is always framed and sent
A_output_fn_nocheck(s, message) ==
    LET sendpkt == MakePkt(s.next_seqnum, NOTINUSE, message)
        buffer_index == CMod(s.next_seqnum, WINDOWSIZE)
        s1 == [s EXCEPT !.sender_buffer[buffer_index] = sendpkt,
                        !.acked[buffer_index] = FALSE]
        s2 == tolayer3(s1, sendpkt)
        s3 == IF s.base = s.next_seqnum THEN starttimer(s2) ELSE s2
    IN  [s3 EXCEPT !.next_seqnum = CMod(s.next_seqnum + 1, SEQSPACE)]

\* slip: next_seqnum wraps at WINDOWSIZE instead of SEQSPACE
A_output_fn_wrap(s, message) ==
    IF WindowHasRoom(s)
    THEN LET sendpkt == MakePkt(s.next_seqnum, NOTINUSE, message)
             buffer_index == CMod(s.next_seqnum, WINDOWSIZE)
             s1 == [s EXCEPT !.sender_buffer[buffer_index] = sendpkt,
                             !.acked[buffer_index] = FALSE]
             s2 == tolayer3(s1, sendpkt)
             s3 == IF s.base = s.next_seqnum THEN starttimer(s2) ELSE s2
         IN  [s3 EXCEPT !.next_seqnum = CMod(s.next_seqnum + 1, WINDOWSIZE)]
    ELSE [s EXCEPT !.window_full = @ + 1]

A_output_fn(s, message) ==
    IF WindowHasRoom(s)
    THEN LET sendpkt == MakePkt(s.next_seqnum, NOTINUSE, message)
             buffer_index == CMod(s.next_seqnum, WINDOWSIZE)
             s1 == [s EXCEPT !.sender_buffer[buffer_index] = sendpkt,
                             !.acked[buffer_index] = FALSE]
             s2 == tolayer3(s1, sendpkt)
             s3 == IF s.base = s.next_seqnum THEN starttimer(s2) ELSE s2
         IN  [s3 EXCEPT !.next_seqnum = CMod(s.next_seqnum + 1, SEQSPACE)]
    ELSE [s EXCEPT !.window_full = @ + 1]

\* the test of the slide loop that decides between restarting and stopping the timer
SlideTimerTest(s) ==
    CMod(s.base - s.next_seqnum + SEQSPACE, SEQSPACE) < WINDOWSIZE

RECURSIVE Slide(_)
Slide(s) ==
    IF s.acked[CMod(s.base, WINDOWSIZE)]
    THEN LET s1 == [s EXCEPT !.acked[CMod(s.base, WINDOWSIZE)] = FALSE,
                             !.base = CMod(s.base + 1, SEQSPACE),
                             !.slides = @ + 1]
             s2 == IF SlideTimerTest(s1)
                   THEN starttimer(stoptimer(s1))
                   ELSE stoptimer(s1)
         IN  Slide(s2)
    ELSE s

AckInWindow(s, acked_seqnum) ==
    CMod(acked_seqnum - s.base + SEQSPACE, SEQSPACE) < WINDOWSIZE

MarkAcked(s, acked_seqnum) ==
    LET buffer_index == CMod(acked_seqnum, WINDOWSIZE)
    IN  IF ~s.acked[buffer_index]
        THEN [s EXCEPT !.acked[buffer_index] = TRUE,
                       !.resend_count[acked_seqnum] = 0]
        ELSE s

\* slip: the checksum of an arriving acknowledgment is not verified
A_input_fn_nocheck(s, packet) ==
    IF packet.acknum \in Seqs /\ AckInWindow(s, packet.acknum)
    THEN Slide(MarkAcked(s, packet.acknum))
    ELSE s

A_input_fn(s, packet) ==
    IF ~IsCorrupted(packet)
    THEN IF AckInWindow(s, packet.acknum)
         THEN Slide(MarkAcked(s, packet.acknum))
         ELSE s
    ELSE s

\* slip: the retry limit is compared with > instead of >=
RetryLimitHit_late(s) == s.resend_count[s.base] > MAX_RETRIES

RetryLimitHit(s) == s.resend_count[s.base] >= MAX_RETRIES

A_timerinterrupt_fn(s) ==
    LET buffer_index == CMod(s.base, WINDOWSIZE)
    IN  IF RetryLimitHit(s)
        THEN [s EXCEPT !.failed = TRUE]
        ELSE LET s1 == tolayer3(s, s.sender_buffer[buffer_index])
                 s2 == [s1 EXCEPT !.packets_resent = @ + 1,
                                  !.resend_count[s.base] = @ + 1]
             IN  starttimer(s2)

A_init_state ==
    [base |-> 0, next_seqnum |-> 0,
     sender_buffer |-> [i \in Slots |-> ZeroPkt],
     acked |-> [i \in Slots |-> FALSE],
     resend_count |-> [q \in Seqs |-> 0],
     window_full |-> 0, packets_resent |-> 0,
     timer |-> FALSE, failed |-> FALSE,
     sent |-> <<>>, dstart |-> FALSE, tcalls |-> <<>>, slides |-> 0]

(* ---------------- receiver B ---------------- *)
\* variant: the receive window is cut to SEQSPACE - WINDOWSIZE numbers, the widest
\* window into which a copy of a delivered frame can never fall
InRecvWindow_narrow(r, packet_seqnum) ==
    CMod(packet_seqnum - r.expected_seqnum + SEQSPACE, SEQSPACE) < SEQSPACE - WINDOWSIZE

InRecvWindow(r, packet_seqnum) ==
    CMod(packet_seqnum - r.expected_seqnum + SEQSPACE, SEQSPACE) < WINDOWSIZE

\* slip: the acknowledgment is cumulative, it names the last frame delivered in order
SendAck_cumulative(r, packet_seqnum) ==
    LET ackpkt == MakePkt(r.B_nextseqnum,
                          CMod(r.expected_seqnum + SEQSPACE - 1, SEQSPACE),
                          [i \in 1 .. PAYLOADLEN |-> AckFill])
        r1 == tolayer3(r, ackpkt)
    IN  [r1 EXCEPT !.B_nextseqnum = CMod(r.B_nextseqnum + 1, 2)]

SendAck(r, packet_seqnum) ==
    LET ackpkt == MakePkt(r.B_nextseqnum, packet_seqnum,
                          [i \in 1 .. PAYLOADLEN |-> AckFill])
        r1 == tolayer3(r, ackpkt)
    IN  [r1 EXCEPT !.B_nextseqnum = CMod(r.B_nextseqnum + 1, 2)]

StoreNew(r, packet) ==
    LET buffer_index == CMod(packet.seqnum, WINDOWSIZE)
    IN  IF ~r.received[buffer_index]
        THEN [r EXCEPT !.receiver_buffer[buffer_index] = packet,
                       !.received[buffer_index] = TRUE,
                       !.packets_received = @ + 1]
        ELSE r

\* slip: an if instead of a while, at most one frame is delivered per call
DeliverOne(r) ==
    LET slot == CMod(r.expected_seqnum, WINDOWSIZE)
    IN  IF r.received[slot]
        THEN LET r1 == tolayer5(r, r.receiver_buffer[slot].payload)
             IN  [r1 EXCEPT !.received[slot] = FALSE,
                            !.expected_seqnum = CMod(r.expected_seqnum + 1, SEQSPACE)]
        ELSE r

RECURSIVE Deliver(_)
Deliver(r) ==
    LET slot == CMod(r.expected_seqnum, WINDOWSIZE)
    IN  IF r.received[slot]
        THEN LET r1 == tolayer5(r, r.receiver_buffer[slot].payload)
                 r2 == [r1 EXCEPT !.received[slot] = FALSE,
                                  !.expected_seqnum = CMod(r.expected_seqnum + 1, SEQSPACE)]
             IN  Deliver(r2)
        ELSE r

\* slip: a frame that is not accepted is answered with an acknowledgment for the
\* last frame delivered in order
B_input_fn_dupack(r, packet) ==
    IF ~IsCorrupted(packet) /\ InRecvWindow(r, packet.seqnum)
    THEN Deliver(StoreNew(SendAck(r, packet.seqnum), packet))
    ELSE SendAck(r, CMod(r.expected_seqnum + SEQSPACE - 1, SEQSPACE))

B_input_fn(r, packet) ==
    IF IsCorrupted(packet)
    THEN r
    ELSE IF InRecvWindow(r, packet.seqnum)
         THEN Deliver(StoreNew(SendAck(r, packet.seqnum), packet))
         ELSE r

B_init_state ==
    [expected_seqnum |-> 0,
     receiver_buffer |-> [i \in Slots |-> ZeroPkt],
     received |-> [i \in Slots |-> FALSE],
     B_nextseqnum |-> 1, packets_received |-> 0,
     sent |-> <<>>, deliv |-> <<>>]

(* ---------------- the channel ---------------- *)
\* what the medium may turn a frame into: the first payload byte or the seqnum
\* overwritten, the stored checksum kept
CorruptSet(packet) ==
    { [packet EXCEPT !.payload[1] = 90],
      [packet EXCEPT !.seqnum = 999999] }

Arrivals(packet) == {packet} \cup CorruptSet(packet)

RemoveAt(q, i) == [j \in 1 .. (Len(q) - 1) |-> IF j < i THEN q[j] ELSE q[j + 1]]

(* ---------------- state ---------------- *)
VARIABLES base, next_seqnum, sender_buffer, acked, resend_count,
          window_full, packets_resent, timer, failed,
          expected_seqnum, receiver_buffer, received, B_nextseqnum,
          packets_received, chanAB, chanBA, submitted, delivered, ev,
          advances, ahist, bhist, ackSeen

senderVars == <<base, next_seqnum, sender_buffer, acked, resend_count,
                window_full, packets_resent, timer, failed>>
receiverVars == <<expected_seqnum, receiver_buffer, received, B_nextseqnum,
                  packets_received>>
\* history: advances counts the advances of base, ahist lists the acknum of every
\* uncorrupted frame A_input was called with, bhist lists for every uncorrupted
\* frame B_input was called with its seqnum and the acknums B sent in reply,
\* ackSeen[s] tells whether A_input was called with an uncorrupted frame of acknum s
\* since sequence number s was last given to an accepted submission
histVars == <<advances, ahist, bhist, ackSeen>>
vars == <<senderVars, receiverVars, chanAB, chanBA, submitted, delivered, ev, histVars>>

\* the sender's state at the entry of a handler
SenderState ==
    [base |-> base, next_seqnum |-> next_seqnum, sender_buffer |-> sender_buffer,
     acked |-> acked, resend_count |-> resend_count, window_full |-> window_full,
     packets_resent |-> packets_resent, timer |-> timer, failed |-> failed,
     sent |-> <<>>, dstart |-> FALSE, tcalls |-> <<>>, slides |-> 0]

ReceiverState ==
    [expected_seqnum |-> expected_seqnum, receiver_buffer |-> receiver_buffer,
     received |-> received, B_nextseqnum |-> B_nextseqnum,
     packets_received |-> packets_received, sent |-> <<>>, deliv |-> <<>>]

SetSender(s) ==
    /\ base' = s.base
    /\ next_seqnum' = s.next_seqnum
    /\ sender_buffer' = s.sender_buffer
    /\ acked' = s.acked
    /\ resend_count' = s.resend_count
    /\ window_full' = s.window_full
    /\ packets_resent' = s.packets_resent
    /\ timer' = s.timer
    /\ failed' = s.failed

SetReceiver(r) ==
    /\ expected_seqnum' = r.expected_seqnum
    /\ receiver_buffer' = r.receiver_buffer
    /\ received' = r.received
    /\ B_nextseqnum' = r.B_nextseqnum
    /\ packets_received' = r.packets_received

\* what the last handler did: its name, its argument's header, the frames it
\* handed to the channel, the payloads it delivered, its timer calls
Event(op, arg, sent, deliv, dstart, tcalls) ==
    [op |-> op, arg |-> arg, sent |-> sent, deliv |-> deliv,
     dstart |-> dstart, tcalls |-> tcalls]

NoArg == [seqnum |-> NOTINUSE, acknum |-> NOTINUSE, corrupted |-> FALSE]
ArgOf(packet) ==
    [seqnum |-> packet.seqnum, acknum |-> packet.acknum,
     corrupted |-> IsCorrupted(packet)]

\* both endpoints after A_init and B_init, nothing submitted or delivered yet
InitEndpoints ==
    /\ base = A_init_state.base
    /\ next_seqnum = A_init_state.next_seqnum
    /\ sender_buffer = A_init_state.sender_buffer
    /\ acked = A_init_state.acked
    /\ resend_count = A_init_state.resend_count
    /\ window_full = A_init_state.window_full
    /\ packets_resent = A_init_state.packets_resent
    /\ timer = A_init_state.timer
    /\ failed = A_init_state.failed
    /\ expected_seqnum = B_init_state.expected_seqnum
    /\ receiver_buffer = B_init_state.receiver_buffer
    /\ received = B_init_state.received
    /\ B_nextseqnum = B_init_state.B_nextseqnum
    /\ packets_received = B_init_state.packets_received
    /\ chanBA = <<>>
    /\ submitted = <<>>
    /\ delivered = <<>>
    /\ ev = Event("init", NoArg, <<>>, <<>>, FALSE, <<>>)
    /\ advances = 0
    /\ ahist = <<>>
    /\ bhist = <<>>
    /\ ackSeen = [s \in Seqs |-> FALSE]

Init ==
    /\ InitEndpoints
    /\ chanAB = <<>>

(* ---------------- actions: one per handler ---------------- *)
\* layer 5 submits the next message; accepted or rejected as window-full;
\* at most max messages are accepted
Submit(max) ==
    /\ ~failed
    /\ LET message == Message(Len(submitted))
           s == A_output_fn(SenderState, message)
           accepted == WindowHasRoom(SenderState)
       IN  /\ accepted => Len(submitted) < max
           /\ ~accepted => window_full < MaxWindowFull
           /\ Len(chanAB) + Len(s.sent) <= MaxChan
           /\ SetSender(s)
           /\ chanAB' = chanAB \o s.sent
           /\ submitted' = IF accepted THEN Append(submitted, message) ELSE submitted
           /\ ev' = Event("A_output", NoArg, s.sent, <<>>, s.dstart, s.tcalls)
           /\ ackSeen' = IF accepted THEN [ackSeen EXCEPT ![next_seqnum] = FALSE]
                          ELSE ackSeen
    /\ UNCHANGED <<receiverVars, chanBA, delivered, advances, ahist, bhist>>

A_output == Submit(MaxMsgs)

\* the frame at the head of the B-to-A channel arrives at A, intact or corrupted
A_input ==
    /\ ~failed
    /\ chanBA # <<>>
    /\ \E packet \in Arrivals(Head(chanBA)) :
         LET s == A_input_fn(SenderState, packet)
         IN  /\ SetSender(s)
             /\ ev' = Event("A_input", ArgOf(packet), s.sent, <<>>, s.dstart, s.tcalls)
             /\ advances' = advances + s.slides
             /\ ahist' = IF IsCorrupted(packet) THEN ahist ELSE Append(ahist, packet.acknum)
             /\ ackSeen' = IF ~IsCorrupted(packet) /\ packet.acknum \in Seqs
                            THEN [ackSeen EXCEPT ![packet.acknum] = TRUE]
                            ELSE ackSeen
    /\ chanBA' = Tail(chanBA)
    /\ UNCHANGED <<receiverVars, chanAB, submitted, delivered, bhist>>

\* A's timer goes off
A_timerinterrupt ==
    /\ ~failed
    /\ timer
    /\ LET s == A_timerinterrupt_fn([SenderState EXCEPT !.timer = FALSE])
       IN  /\ Len(chanAB) + Len(s.sent) <= MaxChan
           /\ SetSender(s)
           /\ chanAB' = chanAB \o s.sent
           /\ ev' = Event("A_timerinterrupt", NoArg, s.sent, <<>>, s.dstart, s.tcalls)
    /\ UNCHANGED <<receiverVars, chanBA, submitted, delivered, histVars>>

\* the frame at the head of the A-to-B channel arrives at B, intact or corrupted
B_input ==
    /\ ~failed
    /\ chanAB # <<>>
    /\ \E packet \in Arrivals(Head(chanAB)) :
         LET r == B_input_fn(ReceiverState, packet)
         IN  /\ Len(chanBA) + Len(r.sent) <= MaxChan
             /\ SetReceiver(r)
             /\ chanBA' = chanBA \o r.sent
             /\ delivered' = delivered \o r.deliv
             /\ ev' = Event("B_input", ArgOf(packet), r.sent, r.deliv, FALSE, <<>>)
             /\ bhist' = IF IsCorrupted(packet) THEN bhist
                          ELSE Append(bhist, <<packet.seqnum,
                                               [i \in 1 .. Len(r.sent) |-> r.sent[i].acknum]>>)
    /\ chanAB' = Tail(chanAB)
    /\ UNCHANGED <<senderVars, submitted, advances, ahist, ackSeen>>

\* the medium loses a frame in flight
LoseAB ==
    /\ ~failed
    /\ \E i \in 1 .. Len(chanAB) : chanAB' = RemoveAt(chanAB, i)
    /\ ev' = Event("lose", NoArg, <<>>, <<>>, FALSE, <<>>)
    /\ UNCHANGED <<senderVars, receiverVars, chanBA, submitted, delivered, histVars>>

LoseBA ==
    /\ ~failed
    /\ \E i \in 1 .. Len(chanBA) : chanBA' = RemoveAt(chanBA, i)
    /\ ev' = Event("lose", NoArg, <<>>, <<>>, FALSE, <<>>)
    /\ UNCHANGED <<senderVars, receiverVars, chanAB, submitted, delivered, histVars>>

BoundedTimeout == packets_resent < MaxResent /\ A_timerinterrupt

Next ==
    \/ A_output
    \/ A_input
    \/ BoundedTimeout
    \/ B_input
    \/ LoseAB
    \/ LoseBA

Spec == Init /\ [][Next]_vars

\* the sender alone on a channel that loses every frame: no acknowledgment ever
\* arrives, timeouts are not bounded
NextNoAck ==
    \/ A_output
    \/ A_timerinterrupt
    \/ LoseAB

SpecNoAck == Init /\ [][NextNoAck]_vars

\* no timeout and no loss, the sequence numbers wrap: the eighth submission is
\* numbered 0 again
A_outputWrap == Submit(MaxWrapMsgs)

NextWrap ==
    \/ A_outputWrap
    \/ A_input
    \/ B_input

SpecWrap == Init /\ [][NextWrap]_vars

\* acknowledgments arrive and timeouts are not bounded: the timer fires whenever it
\* is running, until the retry limit ends the run
A_outputRetry == Submit(MaxRetryMsgs)

NextRetry ==
    \/ A_outputRetry
    \/ A_input
    \/ A_timerinterrupt
    \/ B_input
    \/ LoseAB

SpecRetry == Init /\ [][NextRetry]_vars

(* ======================= properties ======================= *)
IsPrefix(a, b) ==
    /\ Len(a) <= Len(b)
    /\ \A i \in 1 .. Len(a) : a[i] = b[i]

\* frames accepted by A_output and not yet slid out of the window
Outstanding == Len(submitted) - advances

\* the state of a handler record with the per-call bookkeeping cleared
Entry(s) == [s EXCEPT !.sent = <<>>, !.dstart = FALSE, !.tcalls = <<>>, !.slides = 0]

SenderCore(s) ==
    [base |-> s.base, next_seqnum |-> s.next_seqnum, acked |-> s.acked,
     resend_count |-> s.resend_count, timer |-> s.timer]

AckPayload == [i \in 1 .. PAYLOADLEN |-> AckFill]

\* the seqnums of the uncorrupted frames B_input was called with, in order
Arrived(h) == [i \in 1 .. Len(h) |-> h[i][1]]

\* C1: the payloads B delivered are at all times a prefix of the payloads
\* A_output accepted (nothing skipped, duplicated or reordered)
C1_InOrderDelivery == IsPrefix(delivered, submitted)

\* a frame outstanding and unacknowledged at base, no timer running, nothing in
\* flight in either direction and no fatal failure surfaced
Stalled ==
    /\ ~failed
    /\ base # next_seqnum
    /\ ~acked[base % WINDOWSIZE]
    /\ ~timer
    /\ chanAB = <<>>
    /\ chanBA = <<>>

\* C2: the sender never reaches a state in which a frame is outstanding but no
\* timer is running and no retransmission can ever occur (the frame at base
\* would never be delivered)
C2_NoSilentStall == ~Stalled

\* C3: accepted submissions minus advances of base never exceeds WINDOWSIZE,
\* and a submission is accepted only when that number was below WINDOWSIZE
C3_WindowBound ==
    /\ Outstanding <= WINDOWSIZE
    /\ (ev.op = "A_output" /\ ev.sent # <<>>) => (Outstanding - 1) < WINDOWSIZE

C3_Witness ==
    /\ Outstanding = WINDOWSIZE
    /\ advances > 0
    /\ ev.op = "A_output"
    /\ ev.sent = <<>>
    /\ window_full > 0

\* the uncorrupted acknowledgment frames B can build, one per acknum and B_nextseqnum
GoodAcks == { MakePkt(q, a, AckPayload) : q \in {0, 1}, a \in Seqs }

\* C4: in every reachable sender state, for every uncorrupted ack with acknum
\* in 0..SEQSPACE-1, A_input applied twice leaves the sender as A_input
\* applied once, and the second call does not advance base
C4_IdempotentAck ==
    \A packet \in GoodAcks :
        LET once == A_input_fn(SenderState, packet)
            twice == A_input_fn(Entry(once), packet)
        IN  /\ SenderCore(twice) = SenderCore(once)
            /\ twice.slides = 0

\* C5: no handler of A calls starttimer while the timer is running
C5_AtMostOneTimer == ~ev.dstart

\* the part of retry exhaustion that holds when no acknowledgment of any frame
\* ever arrives (SpecNoAck): base stays 0, its frame is retransmitted exactly
\* MAX_RETRIES times, and the next timeout is fatal
NoAckRetryExhaustion ==
    /\ packets_resent <= MAX_RETRIES
    /\ resend_count[base] <= MAX_RETRIES
    /\ resend_count[base] = packets_resent
    /\ (base # next_seqnum) => (timer \/ failed)
    /\ failed => /\ ev.op = "A_timerinterrupt"
                 /\ ev.sent = <<>>
                 /\ ev.tcalls = <<>>
                 /\ ~timer
                 /\ resend_count[base] = MAX_RETRIES
    /\ (ev.op = "A_timerinterrupt" /\ ~failed) =>
           /\ ev.sent = <<sender_buffer[base % WINDOWSIZE]>>
           /\ timer

\* the frame at base is outstanding and no acknowledgment for it has arrived
\* since it was submitted
BaseUnacked ==
    /\ Outstanding >= 1
    /\ base # next_seqnum
    /\ ~ackSeen[base]
    /\ ~acked[CMod(base, WINDOWSIZE)]

\* C6: while no acknowledgment for the frame at base has arrived, whichever frame
\* that is, the sender does not stop silently: its timer is armed until the fatal
\* failure, so that timeouts keep retransmitting the frame; the counter of the
\* frame never passes MAX_RETRIES; and the timeout that finds it at MAX_RETRIES
\* surfaces the fatal failure without transmitting, counting or restarting the
\* timer.
C6_RetryExhaustion ==
    /\ BaseUnacked => (timer \/ failed)
    /\ resend_count[base] <= MAX_RETRIES
    /\ failed => /\ ev.op = "A_timerinterrupt"
                 /\ ev.sent = <<>>
                 /\ ev.tcalls = <<>>
                 /\ ~timer
                 /\ resend_count[base] = MAX_RETRIES
    /\ (ev.op = "A_timerinterrupt" /\ ~failed /\ Outstanding >= 1) =>
           /\ ev.sent = <<sender_buffer[CMod(base, WINDOWSIZE)]>>
           /\ timer

\* the retry limit was reached with no acknowledgment of any frame
NoAckFatal ==
    /\ failed
    /\ packets_resent = MAX_RETRIES
    /\ base # next_seqnum

\* C7: a step of A_output taken with (next_seqnum - base) mod SEQSPACE >=
\* WINDOWSIZE only increments window_full: the window, the buffer, the flags,
\* the counters and the timer are unchanged and no frame is sent
C7_WindowFullBackpressure ==
    [][ (ev'.op = "A_output" /\ ((next_seqnum - base) % SEQSPACE) >= WINDOWSIZE)
        => /\ window_full' = window_full + 1
           /\ UNCHANGED <<base, next_seqnum, sender_buffer, acked, resend_count,
                          timer, packets_resent, failed, chanAB, submitted>>
           /\ ev'.sent = <<>>
           /\ ev'.tcalls = <<>> ]_vars

C7_Witness ==
    /\ ev.op = "A_output"
    /\ ev.sent = <<>>
    /\ window_full = 1
    /\ ((next_seqnum - base) % SEQSPACE) >= WINDOWSIZE

\* frames whose stored checksum differs from the recomputed one, built from an
\* acknowledgment of a with one field changed
BadAcks(a) ==
    LET good == MakePkt(1, a, AckPayload)
    IN  { [good EXCEPT !.checksum = @ + 1],
          [good EXCEPT !.payload[1] = 90],
          [good EXCEPT !.acknum = (a + 1) % SEQSPACE] }

BadAckSet == UNION { BadAcks(a) : a \in Seqs }

BadAcksAreBad == \A packet \in BadAckSet : packet.checksum # ComputeChecksum(packet)

\* C8: in every reachable sender state, A_input of a frame whose checksum
\* differs from ComputeChecksum leaves the whole sender state unchanged, sends
\* nothing and makes no timer call, whatever acknum the frame carries
C8_CorruptedAckIgnored ==
    /\ BadAcksAreBad
    /\ \A packet \in BadAckSet : A_input_fn(SenderState, packet) = SenderState
    /\ (ev.op = "A_input" /\ ev.arg.corrupted) =>
           (ev.sent = <<>> /\ ev.tcalls = <<>>)

C8_Witness ==
    /\ ev.op = "A_input"
    /\ ev.arg.corrupted
    /\ ev.arg.acknum = base
    /\ base # next_seqnum
    /\ ~acked[base % WINDOWSIZE]

\* C9: while A has received no acknowledgment, the k-th call of A_output for
\* k = 1..WINDOWSIZE is accepted and sends exactly one frame with seqnum k-1,
\* acknum NOTINUSE, a valid checksum and the submitted payload; every later
\* call is rejected as window-full and sends nothing
C9_ScenarioA ==
    (ahist = <<>> /\ ev.op = "A_output") =>
        LET k == Len(submitted) + window_full
        IN  IF k <= WINDOWSIZE
            THEN /\ window_full = 0
                 /\ Len(ev.sent) = 1
                 /\ ev.sent[1].seqnum = k - 1
                 /\ ev.sent[1].acknum = NOTINUSE
                 /\ ev.sent[1].checksum = ComputeChecksum(ev.sent[1])
                 /\ ev.sent[1].payload = submitted[k]
            ELSE /\ ev.sent = <<>>
                 /\ Len(submitted) = WINDOWSIZE

C9_Witness ==
    /\ ahist = <<>>
    /\ ev.op = "A_output"
    /\ Len(submitted) = WINDOWSIZE
    /\ window_full = 1

\* the scenario of one lost frame: six submissions, B has seen 0,1,3,4,5
ScenarioB_AtB ==
    /\ Len(submitted) = 6
    /\ Arrived(bhist) = <<0, 1, 3, 4, 5>>

ScenarioB_Buffered ==
    /\ \A i \in 1 .. Len(bhist) : bhist[i][2] = <<bhist[i][1]>>
    /\ delivered = <<Message(0), Message(1)>>
    /\ expected_seqnum = 2
    /\ received = [i \in Slots |-> i \in {3, 4, 5}]
    /\ \A i \in {3, 4, 5} : receiver_buffer[i].payload = Message(i)

ScenarioB_Timeout ==
    (/\ ScenarioB_AtB
     /\ ahist = <<0, 1, 3, 4, 5>>
     /\ packets_resent = 0
     /\ ev'.op = "A_timerinterrupt")
    => ev'.sent = <<MakePkt(2, NOTINUSE, Message(2))>>

ScenarioB_Burst ==
    (/\ ScenarioB_AtB
     /\ ev'.op = "B_input"
     /\ ~ev'.arg.corrupted
     /\ ev'.arg.seqnum = 2)
    => /\ ev'.deliv = <<Message(2), Message(3), Message(4), Message(5)>>
       /\ delivered' = <<Message(0), Message(1), Message(2), Message(3),
                         Message(4), Message(5)>>
       /\ expected_seqnum' = 6
       /\ \A i \in Slots : ~received'[i]

\* C10: after frames 0..5 were sent and 0,1,3,4,5 reached B in order, B has
\* acknowledged each of them, delivered only payloads 0 and 1 and holds 3,4,5;
\* a timeout of A (all five acks in, nothing resent yet) retransmits exactly
\* frame 2; the arrival of frame 2 at B delivers 2,3,4,5 in that one call and
\* leaves expected_seqnum = 6 with no slot marked received
C10_ScenarioB ==
    /\ [](ScenarioB_AtB => ScenarioB_Buffered)
    /\ [][ScenarioB_Timeout /\ ScenarioB_Burst]_vars

C10_Witness ==
    /\ Len(submitted) = 6
    /\ Arrived(bhist) = <<0, 1, 3, 4, 5, 2>>
    /\ ahist = <<0, 1, 3, 4, 5>>
    /\ packets_resent = 1
    /\ ev.op = "B_input"
    /\ ev.deliv = <<Message(2), Message(3), Message(4), Message(5)>>
    /\ expected_seqnum = 6

(* ---------------- checksum sensitivity ---------------- *)
\* valid frames as the endpoints build them: data frames and acknowledgments
SampleFrames ==
    {MakePkt(s, NOTINUSE, Message(k)) : s \in Seqs, k \in 0 .. MaxSample}
        \cup {MakePkt(q, a, AckPayload) : q \in 0 .. 1, a \in Seqs}

SeqnumValues == Seqs \cup {999999}
AcknumValues == Seqs \cup {NOTINUSE}
ByteValues == {0, AckFill, 90, 127}

\* one frame in flight from A to B, with its checksum as computed by the sender
InitChecksum ==
    /\ InitEndpoints
    /\ chanAB \in {<<f>> : f \in SampleFrames}

\* the frame in flight with one field replaced, the stored checksum kept
Tampered(t) ==
    /\ ~failed
    /\ ev.op = "init"
    /\ chanAB' = <<t>>
    /\ ev' = Event("tamper", ArgOf(t), <<Head(chanAB)>>, <<>>, FALSE, <<>>)
    /\ UNCHANGED <<senderVars, receiverVars, chanBA, submitted, delivered, histVars>>

TamperSeqnum ==
    /\ chanAB # <<>>
    /\ \E v \in SeqnumValues \ {Head(chanAB).seqnum} :
         Tampered([Head(chanAB) EXCEPT !.seqnum = v])

TamperAcknum ==
    /\ chanAB # <<>>
    /\ \E v \in AcknumValues \ {Head(chanAB).acknum} :
         Tampered([Head(chanAB) EXCEPT !.acknum = v])

TamperPayload ==
    /\ chanAB # <<>>
    /\ \E i \in 1 .. PAYLOADLEN :
         \E v \in ByteValues \ {Head(chanAB).payload[i]} :
           Tampered([Head(chanAB) EXCEPT !.payload[i] = v])

NextChecksum ==
    \/ TamperSeqnum
    \/ TamperAcknum
    \/ TamperPayload

SpecChecksum == InitChecksum /\ [][NextChecksum]_vars

\* C11: a frame that carried its own checksum and then had exactly one of seqnum,
\* acknum or one payload byte replaced by a different value, the stored checksum
\* kept, is reported corrupted by IsCorrupted; the stored checksum is not part of
\* the sum ComputeChecksum forms.
C11_ChecksumSensitivity ==
    /\ ev.op = "init" =>
         \A i \in 1 .. Len(chanAB) : ~IsCorrupted(chanAB[i])
    /\ ev.op = "tamper" =>
         /\ ~IsCorrupted(ev.sent[1])
         /\ ev.arg.corrupted
         /\ IsCorrupted(chanAB[1])
    /\ \A i \in 1 .. Len(chanAB) :
         ComputeChecksum([chanAB[i] EXCEPT !.checksum = @ + 1])
             = ComputeChecksum(chanAB[i])

\* the last payload byte of a data frame was replaced
C11_Witness ==
    /\ ev.op = "tamper"
    /\ ev.sent[1].acknum = NOTINUSE
    /\ chanAB[1].seqnum = ev.sent[1].seqnum
    /\ chanAB[1].acknum = ev.sent[1].acknum
    /\ chanAB[1].checksum = ev.sent[1].checksum
    /\ chanAB[1].payload[PAYLOADLEN] # ev.sent[1].payload[PAYLOADLEN]

(* ---------------- sender: timer, retransmission, window ---------------- *)
\* C12: whenever A_input returns after an uncorrupted acknowledgment that advanced
\* base at least once (the slide loop called stoptimer), the timer is running if
\* and only if a frame is still outstanding, base # next_seqnum: stopped when the
\* window became empty, running when one frame remains.
C12_TimerAfterSlide ==
    (ev.op = "A_input" /\ ~ev.arg.corrupted /\ ev.tcalls # <<>>)
        => (timer <=> base # next_seqnum)

\* C13: every call of A_timerinterrupt that does not hit the retry limit hands
\* exactly one frame to the channel, the outstanding frame whose sequence number
\* equals base, with the payload it was submitted with: never another sequence
\* number, never a frame that is not outstanding, never more than one frame.
C13_TimeoutResendsBase ==
    (ev.op = "A_timerinterrupt" /\ ~failed) =>
        /\ Len(ev.sent) = 1
        /\ ev.sent[1].seqnum = base
        /\ base # next_seqnum
        /\ Outstanding >= 1
        /\ ev.sent[1].payload = submitted[advances + 1]

\* C14: base never passes next_seqnum: the number of times base advanced never
\* exceeds the number of accepted submissions, and the frames in flight are the
\* sequence numbers base .. next_seqnum - 1 (mod SEQSPACE), duplicate or stale
\* acknowledgments and timeouts included.
C14_SenderWindow ==
    /\ advances <= Len(submitted)
    /\ base = advances % SEQSPACE
    /\ next_seqnum = Len(submitted) % SEQSPACE
    /\ CMod(next_seqnum - base + SEQSPACE, SEQSPACE) = Outstanding

\* the sequence number of the j-th accepted submission (j = 1, 2, ...)
SeqOf(j) == (j - 1) % SEQSPACE

\* a frame accepted and not yet slid out of the window is stored in slot i
SlotOutstanding(i) ==
    \E j \in (advances + 1) .. Len(submitted) : CMod(SeqOf(j), WINDOWSIZE) = i

\* C15: A_output never overwrites a sender_buffer slot, nor clears its acked flag,
\* while the frame stored in that slot is still outstanding: a slot is reused only
\* after base has advanced past its frame.
C15_SlotReuse ==
    [][\A i \in Slots :
         (/\ ev'.op = "A_output"
          /\ \/ sender_buffer'[i] # sender_buffer[i]
             \/ acked[i] /\ ~acked'[i])
            => ~SlotOutstanding(i)]_vars

(* ---------------- receiver: discard, acknowledgment, delivery ---------------- *)
\* the frame handed to the last call of B_input lies outside the window that
\* begins at expected_seqnum
OutOfRecvWindow(arg, expected) ==
    CMod(arg.seqnum - expected + SEQSPACE, SEQSPACE) >= WINDOWSIZE

\* C16: when B_input receives a corrupted frame, or an uncorrupted frame whose
\* sequence number lies WINDOWSIZE or more past expected_seqnum (mod SEQSPACE), it
\* sends no acknowledgment, delivers nothing, and leaves expected_seqnum, received,
\* receiver_buffer, B_nextseqnum and packets_received unchanged.
C16_DiscardPath ==
    [][(/\ ev'.op = "B_input"
        /\ \/ ev'.arg.corrupted
           \/ OutOfRecvWindow(ev'.arg, expected_seqnum))
          => /\ ev'.sent = <<>>
             /\ ev'.deliv = <<>>
             /\ chanBA' = chanBA
             /\ delivered' = delivered
             /\ UNCHANGED receiverVars]_vars

\* an intact frame outside the window was discarded
C16_Witness ==
    /\ ev.op = "B_input"
    /\ ~ev.arg.corrupted
    /\ OutOfRecvWindow(ev.arg, expected_seqnum)
    /\ ev.sent = <<>>
    /\ packets_received >= 1

\* C17: for every uncorrupted frame inside the window B_input sends exactly one
\* acknowledgment, with acknum equal to the frame's sequence number and a valid
\* checksum, new frame or duplicate alike; for a duplicate (its slot is already
\* marked received) buffer, flags and packets_received are unchanged, for a new
\* frame the frame is stored and packets_received grows by exactly one.
C17_PerFrameAck ==
    [][(/\ ev'.op = "B_input"
        /\ ~ev'.arg.corrupted
        /\ ~OutOfRecvWindow(ev'.arg, expected_seqnum))
          => LET slot == CMod(ev'.arg.seqnum, WINDOWSIZE)
             IN  /\ Len(ev'.sent) = 1
                 /\ ev'.sent[1].acknum = ev'.arg.seqnum
                 /\ ~IsCorrupted(ev'.sent[1])
                 /\ chanBA' = Append(chanBA, ev'.sent[1])
                 /\ IF received[slot]
                    THEN /\ receiver_buffer' = receiver_buffer
                         /\ received' = received
                         /\ packets_received' = packets_received
                         /\ ev'.deliv = <<>>
                    ELSE /\ receiver_buffer'[slot] = Head(chanAB)
                         /\ packets_received' = packets_received + 1]_vars

\* a duplicate was acknowledged: its slot was already marked, the frame was not
\* counted, and the acknowledgment carries its sequence number
C17_Witness ==
    /\ ev.op = "B_input"
    /\ ~ev.arg.corrupted
    /\ Len(ev.sent) = 1
    /\ ev.sent[1].acknum = ev.arg.seqnum
    /\ ev.deliv = <<>>
    /\ received[CMod(ev.arg.seqnum, WINDOWSIZE)]
    /\ receiver_buffer[CMod(ev.arg.seqnum, WINDOWSIZE)].seqnum # ev.arg.seqnum

\* C18: every payload B_input delivers comes from a buffered frame whose sequence
\* number equals expected_seqnum at the moment of that delivery. The k-th delivery
\* of a call happens at expected_seqnum + k (mod SEQSPACE) from the slot of that
\* number; a call writes a slot only before its delivery loop and the loop never
\* writes receiver_buffer, so the frame delivered is the one the slot holds when
\* the call returns.
C18_DeliversExpectedFrame ==
    [][ev'.op = "B_input" =>
         \A k \in 0 .. (Len(ev'.deliv) - 1) :
           LET e == CMod(expected_seqnum + k, SEQSPACE)
               f == receiver_buffer'[CMod(e, WINDOWSIZE)]
           IN  /\ f.payload = ev'.deliv[k + 1]
               /\ f.seqnum = e]_vars

\* the payload has been delivered to layer 5 before
AlreadyDelivered(payload) == \E k \in 1 .. Len(delivered) : delivered[k] = payload

\* C19: with SEQSPACE = 7 and WINDOWSIZE = 6 an execution with only loss or delay
\* and a sender timeout reaches it: B_input takes the retransmitted, intact copy of
\* a frame it has already delivered as a new in-window frame. Whenever such a copy
\* arrives at distance less than WINDOWSIZE from expected_seqnum and its slot is
\* free, B_input acknowledges it, stores it, marks the slot and counts it.
C19_AliasingAccepted ==
    [][(/\ ev'.op = "B_input"
        /\ ~ev'.arg.corrupted
        /\ chanAB # <<>>
        /\ AlreadyDelivered(Head(chanAB).payload)
        /\ ~OutOfRecvWindow(ev'.arg, expected_seqnum)
        /\ ~received[CMod(ev'.arg.seqnum, WINDOWSIZE)])
          => LET slot == CMod(ev'.arg.seqnum, WINDOWSIZE)
             IN  /\ receiver_buffer'[slot] = Head(chanAB)
                 /\ received'[slot] \/ ev'.deliv # <<>>
                 /\ packets_received' = packets_received + 1
                 /\ Len(ev'.sent) = 1
                 /\ ev'.sent[1].acknum = ev'.arg.seqnum]_vars

\* the ack of frame 0 was lost, frame 1 was delivered, A timed out and sent frame 0
\* again: B, expecting 2, holds the copy of frame 0 as a frame still to be delivered
C19_Witness ==
    /\ ev.op = "B_input"
    /\ ~ev.arg.corrupted
    /\ ev.arg.seqnum = 0
    /\ base = 0
    /\ packets_resent = 1
    /\ delivered = <<Message(0), Message(1)>>
    /\ expected_seqnum = 2
    /\ received[0]
    /\ receiver_buffer[0].payload = Message(0)
    /\ packets_received = 3

\* C20: whenever A_input advances base from s to s + 1, the sender has received,
\* since the most recent submission of the frame numbered s, an uncorrupted
\* acknowledgment with acknum = s (the one being handled included): base never
\* moves past a frame for which no such acknowledgment arrived.
C20_SlideOnlyPastAcked ==
    [][ev'.op = "A_input" =>
         \A k \in 0 .. (advances' - advances - 1) :
           ackSeen'[CMod(base + k, SEQSPACE)]]_vars

(* ---------------- retry exhaustion and acknowledged frames ---------------- *)
\* C21: no timeout fires while the window is empty; the retry counter of a sequence
\* number is 0 when a new frame with that number has just been submitted; and the
\* fatal retry-exhaustion failure is raised only with the frame at base outstanding
\* and its counter, which then counts the retransmissions of that very frame since
\* its submission, at exactly MAX_RETRIES.
C21_NoSpuriousFailure ==
    /\ ev.op = "A_timerinterrupt" =>
         /\ base # next_seqnum
         /\ Outstanding >= 1
    /\ (ev.op = "A_output" /\ ev.sent # <<>>) =>
         resend_count[ev.sent[1].seqnum] = 0
    /\ failed =>
         /\ base # next_seqnum
         /\ Outstanding >= 1
         /\ resend_count[base] = MAX_RETRIES

\* C22: whenever B_input sends an acknowledgment for an arriving frame, the payload
\* of that frame is, when B_input returns, either stored in the receiver buffer in
\* a slot marked received, awaiting delivery, or has been delivered to layer 5 (by
\* this call or an earlier one): B never acknowledges a frame whose payload it has
\* neither stored nor delivered.
C22_AckedFrameHeld ==
    [][(ev'.op = "B_input" /\ ev'.sent # <<>>) =>
         LET f == Head(chanAB)
             slot == CMod(f.seqnum, WINDOWSIZE)
         IN  /\ ev'.sent[1].acknum = f.seqnum
             /\ \/ received'[slot] /\ receiver_buffer'[slot].payload = f.payload
                \/ \E k \in 1 .. Len(delivered') : delivered'[k] = f.payload]_vars
====
